---- MODULE Spec2Model ----
(***************************************************************************)
(* Model of the email-agent session runtime:                               *)
(*   - MessageQueue  (examples/email-agent/ccsdk/message-queue.ts)         *)
(*   - Session       (examples/email-agent/ccsdk/session.ts)               *)
(*   - WebSocketHandler (examples/email-agent/ccsdk/websocket-handler.ts) *)
(*   - UIStateManager (ccsdk/ui-state-manager.ts, as listed in             *)
(*     examples/email-agent/UI_STATE_SYSTEM.md)                            *)
(* JavaScript runs on one event loop: a handler runs to its first await,   *)
(* and continuations of settled promises (microtasks) run, in the order    *)
(* they were registered, before any further external event is taken.       *)
(***************************************************************************)
EXTENDS Integers, Sequences, FiniteSets, TLC

\* ------------------------------------------------------------------ bounds
\* number of next() calls made on the MessageQueue
MaxNext == 3
\* number of addUserMessage calls made on the Session
MaxCalls == 3

\* number of cleanup timers pending at the same time
MaxTimers == 2

\* number of setState calls made
MaxWrites == 2
\* number of executeAction calls made
MaxRuns == 2

\* the items pushed (each item is pushed at most once, in any order)
Items == {"A", "B", "C"}
\* the id of the Session (Session.id)
SessionId == "s1"
\* the WebSocket clients
Conns == {"w1", "w2"}
\* the session ids the clients name in their messages
SessionIds == {"s1", "s2"}
\* the ids of the component instances an action result declares
InstanceIds == {"c1", "c2"}
\* the grace period of cleanupEmptySessions (60000 ms), in clock ticks
Grace == 2
\* the conversation handles the agent may announce in system/init
Handles == {"h1", "h2"}

\* the ids of the UI states
StateIds == {"task_board", "notes"}
\* the values written: 0 and two objects
Values == {"0", "a", "b"}

NextCalls == 1..MaxNext
Calls == 1..MaxCalls
Writes == 1..MaxWrites
Runs == 1..MaxRuns
\* the callbacks registered with onStateUpdate
Callbacks == {"cb1", "cb2"}
\* the entries of the ui-states directory, in the order readdir lists them
DirOrder == <<"_draft.ts", "notes.bak", "notes.ts", "task_board.ts">>
FileNames == {DirOrder[i] : i \in 1..Len(DirOrder)}

\* the types of the content blocks of an assistant message ("other" stands for
\* every type broadcastToSubscribers has no branch for, such as thinking)
BlockTypes == {"text", "tool_use", "other"}
\* the content arrays of an assistant message
Contents == {<<>>} \cup {<<a>> : a \in BlockTypes} \cup {<<a, b>> : a, b \in BlockTypes}
\* an agent message: its type, whether its content is a string, and its
\* content blocks otherwise
Message(t, str, blocks) == [type |-> t, text |-> str, blocks |-> blocks]
\* the messages whose content is a string or absent
PlainMessages == {Message(t, TRUE, <<>>) : t \in {"system", "assistant", "result"}}
\* the assistant messages whose content is an array of blocks
BlockMessages == {Message("assistant", FALSE, b) : b \in Contents}

VARIABLES
    \* ---- MessageQueue
    queue,        \* MessageQueue.queue: the items pushed and not yet taken
    resolvers,    \* MessageQueue.resolvers: the suspended next() calls, oldest first
    closed,       \* MessageQueue.closed
    nextRes,      \* per next() call: what its promise holds
    pushLog,      \* every push() made, in order, with whether it succeeded
    \* ---- Session
    queryPromise, \* Session.queryPromise: 0 (null) or the turn whose promise it is
    messageCount, \* Session.messageCount
    sdkSessionId, \* Session.sdkSessionId: "" (null) or a handle
    subscribers,  \* Session.subscribers
    connData,     \* client.data.sessionId of every client
    broken,       \* the clients whose send() throws
    call,         \* per addUserMessage call: where it stands
    turn,         \* per addUserMessage call: the query it runs (lines 35-63) and the
                  \* type of the latest wire message broadcast for it
    lastSend,     \* the latest message the Session sent: its type, its turn, the
                  \* clients it reached and (session_info) what it reports
    microtasks,   \* continuations of settled promises, in the order they will run
    ended,        \* endConversation() was called and no turn was started since
    \* ---- WebSocketHandler
    clients,      \* WebSocketHandler.clients: the connected clients
    sessions,     \* WebSocketHandler.sessions: per id, whether a Session is registered,
                  \* its subscribers and whether it is processing a turn
    timers,       \* the pending timers of cleanupEmptySessions, in the order they fire
    idle,         \* per id: the ticks the registered Session has been without subscriber
    pendingAct,   \* per client: the session id of its execute_action that awaits the action
    instances,    \* ComponentManager.instances: per instance id, the session it was registered for
    hubSent,      \* the messages the handler sent in its latest step, in order
    \* ---- UIStateManager
    persisted,    \* the rows of the ui_states table: per state id, the value or NoRow
    templates,    \* UIStateManager.templates: per state id, the initial state or NoTemplate
    writes,       \* per setState call: its arguments and where it stands
    stateLog,     \* the audit records appended, in order (their state ids)
    notified,     \* the notifications the update callbacks received, in order
    lastGet,      \* the latest getState call: its id and the value it resolved with
    lastResponse, \* the latest response of GET /api/ui-state/:id
    updateCallbacks, \* UIStateManager.updateCallbacks, in insertion order
    lastInit,     \* the latest initializeStateIfNeeded call that returned: its id and result
    files,        \* the template files of the ui-states directory
    loading,      \* the latest loadAllTemplates(): where it stands, the files it has
                  \* still to load, whether a file changed since it started, and
                  \* the templates held when it started
    \* ---- ActionsManager
    runs,         \* per executeAction call: where it stands and its result
    actLog        \* the entries appended to the action log, in order

qvars == <<queue, resolvers, closed, nextRes, pushLog>>
svars == <<queryPromise, messageCount, sdkSessionId, subscribers, connData,
           broken, call, turn, lastSend, microtasks, ended>>
hvars == <<clients, sessions, timers, idle, pendingAct, instances, hubSent>>
uvars == <<persisted, templates, writes, stateLog, notified, lastGet, lastResponse,
           updateCallbacks, lastInit, files, loading>>
pvars == <<runs, actLog>>
vars == <<queue, resolvers, closed, nextRes, pushLog,
          queryPromise, messageCount, sdkSessionId, subscribers, connData,
          broken, call, turn, lastSend, microtasks, ended,
          clients, sessions, timers, idle, pendingAct, instances, hubSent,
          persisted, templates, writes, stateLog, notified, lastGet, lastResponse,
          updateCallbacks, lastInit, files, loading, runs, actLog>>

\* ------------------------------------------------------------ helpers
Last(s) == s[Len(s)]

Range(s) == {s[i] : i \in 1..Len(s)}

\* the subsequence of s, from position i on, of the elements that are in S
RECURSIVE SelectIdx(_, _, _)
SelectIdx(s, i, S) ==
    IF i > Len(s) THEN <<>>
    ELSE IF s[i] \in S THEN <<s[i]>> \o SelectIdx(s, i + 1, S)
    ELSE SelectIdx(s, i + 1, S)

\* the elements of a set of integers as an increasing sequence
RECURSIVE Sorted(_)
Sorted(S) ==
    IF S = {} THEN <<>>
    ELSE LET m == CHOOSE x \in S : \A y \in S : x <= y
         IN <<m>> \o Sorted(S \ {m})

\* ====================================================================
\* MessageQueue
\* ====================================================================
\* what a next() call holds: "suspended" (its promise is pending), "value"
\* ({value, done: false}) or "done" ({done: true}); and what the call saw when
\* it was made: closed, queue.length, resolvers.length
NoResult == [st |-> "none", value |-> "", wasClosed |-> FALSE, queued |-> 0, waiting |-> 0]

InitQ ==
    /\ queue = <<>>
    /\ resolvers = <<>>
    /\ closed = FALSE
    /\ nextRes = [k \in NextCalls |-> NoResult]
    /\ pushLog = <<>>

\* the items of the pushes that succeeded, in push order
RECURSIVE PushedFrom(_)
PushedFrom(i) ==
    IF i > Len(pushLog) THEN <<>>
    ELSE IF pushLog[i].ok THEN <<pushLog[i].item>> \o PushedFrom(i + 1)
    ELSE PushedFrom(i + 1)

Pushed == PushedFrom(1)

\* the items ever passed to push()
Offered == {pushLog[i].item : i \in 1..Len(pushLog)}

NextMade == {k \in NextCalls : nextRes[k].st # "none"}

\* push(): line 8, the closed check
pushRefused_never == FALSE
pushRefused == closed

\* push(): line 12, resolvers.shift()
shiftResolver_last == Len(resolvers)
shiftResolver == 1

\* push(item), lines 7-18
push_both(item) ==
    /\ item \in Items \ Offered
    /\ IF pushRefused
       THEN /\ pushLog' = Append(pushLog, [item |-> item, ok |-> FALSE])
            /\ UNCHANGED <<queue, resolvers, closed, nextRes>>
       ELSE /\ pushLog' = Append(pushLog, [item |-> item, ok |-> TRUE])
            /\ IF resolvers # <<>>
               THEN LET k == resolvers[shiftResolver]
                    IN /\ resolvers' = SelectIdx(resolvers, 1, Range(resolvers) \ {k})
                       /\ nextRes' = [nextRes EXCEPT ![k].st = "value", ![k].value = item]
                       /\ queue' = Append(queue, item)
                       /\ UNCHANGED closed
               ELSE /\ queue' = Append(queue, item)
                    /\ UNCHANGED <<resolvers, closed, nextRes>>
    /\ UNCHANGED <<svars, hvars, uvars, pvars>>

push(item) ==
    /\ item \in Items \ Offered
    /\ IF pushRefused
       THEN \* line 9: throw new Error("Queue is closed")
            /\ pushLog' = Append(pushLog, [item |-> item, ok |-> FALSE])
            /\ UNCHANGED <<queue, resolvers, closed, nextRes>>
       ELSE /\ pushLog' = Append(pushLog, [item |-> item, ok |-> TRUE])
            /\ IF resolvers # <<>>
               THEN \* lines 12-14: the resolver taken off the list is called
                    LET k == resolvers[shiftResolver]
                    IN /\ resolvers' = SelectIdx(resolvers, 1, Range(resolvers) \ {k})
                       /\ nextRes' = [nextRes EXCEPT ![k].st = "value", ![k].value = item]
                       /\ UNCHANGED <<queue, closed>>
               ELSE \* line 16
                    /\ queue' = Append(queue, item)
                    /\ UNCHANGED <<resolvers, closed, nextRes>>
    /\ UNCHANGED <<svars, hvars, uvars, pvars>>

\* next(): line 22, queue.shift()
shiftQueue_last == Len(queue)
shiftQueue == 1

\* next(): line 25, the closed check that precedes suspension
nextDone_never == FALSE
nextDone == closed

\* next(), lines 20-34, made as the k-th next() call
next ==
    LET k == Cardinality(NextMade) + 1
        seen == [NoResult EXCEPT !.wasClosed = closed, !.queued = Len(queue),
                                 !.waiting = Len(resolvers)]
    IN /\ k \in NextCalls
       /\ IF Len(queue) > 0
          THEN LET i == shiftQueue
               IN /\ nextRes' = [nextRes EXCEPT ![k] = [seen EXCEPT !.st = "value", !.value = queue[i]]]
                  /\ queue' = [j \in 1..(Len(queue) - 1) |-> IF j < i THEN queue[j] ELSE queue[j + 1]]
                  /\ UNCHANGED <<resolvers, closed, pushLog>>
          ELSE IF nextDone
          THEN /\ nextRes' = [nextRes EXCEPT ![k] = [seen EXCEPT !.st = "done"]]
               /\ UNCHANGED <<queue, resolvers, closed, pushLog>>
          ELSE /\ nextRes' = [nextRes EXCEPT ![k] = [seen EXCEPT !.st = "suspended"]]
               /\ resolvers' = Append(resolvers, k)
               /\ UNCHANGED <<queue, closed, pushLog>>
       /\ UNCHANGED <<svars, hvars, uvars, pvars>>

\* close(), lines 36-43: the forEach body is empty, so no resolver is called
\* and the suspended next() calls stay suspended
close ==
    /\ closed' = TRUE
    /\ resolvers' = <<>>
    /\ UNCHANGED <<queue, nextRes, pushLog>>
    /\ UNCHANGED <<svars, hvars, uvars, pvars>>

NextQ ==
    \/ \E item \in Items : push(item)
    \/ next
    \/ close

\* ====================================================================
\* Session
\* ====================================================================
NoCall == [pc |-> "none", waitedOn |-> 0, idleAtIssue |-> FALSE]
NoTurn == [st |-> "none", resume |-> "", last |-> ""]
NoSend == [type |-> "", turn |-> 0, to |-> {}, info |-> <<>>, msgs |-> <<>>]
\* wsMessage = null
NoWire == [wire |-> "", block |-> 0]

InitS ==
    /\ queryPromise = 0
    /\ messageCount = 0
    /\ sdkSessionId = ""
    /\ subscribers = {}
    /\ connData = [w \in Conns |-> ""]
    /\ broken = {}
    /\ call = [c \in Calls |-> NoCall]
    /\ turn = [c \in Calls |-> NoTurn]
    /\ lastSend = NoSend
    /\ microtasks = <<>>
    /\ ended = FALSE

Issued == {c \in Calls : call[c].pc # "none"}

\* the turns whose agent stream is being driven
InFlight == {c \in Calls : turn[c].st \in {"open", "resulted"}}

\* nothing of the Session is running or pending
Quiescent ==
    /\ InFlight = {}
    /\ microtasks = <<>>
    /\ \A c \in Calls : call[c].pc # "waiting"

\* the loop of a broadcast, session.ts lines 173-180 (and websocket-handler.ts
\* lines 78-84): a send that throws is caught inside the loop, so every client
\* of S whose send succeeds gets the message
Delivered_abort(S) == IF S \cap broken = {} THEN S ELSE {}
Delivered(S) == S \ broken

\* broadcast(message), lines 171-181: every subscriber whose send succeeds gets
\* the message, the others are deleted from the set
Receivers == Delivered(subscribers)

\* line 178: this.subscribers.delete(client) in the catch block of broadcast
afterBroadcast_kept == subscribers
afterBroadcast == Receivers

\* lines 32-42: the part of addUserMessage that follows the wait, up to the
\* first await of the query
Started(c) == [turn EXCEPT ![c] = [st |-> "open", resume |-> sdkSessionId, last |-> ""]]

\* line 32: this.messageCount++
counted_kept == messageCount
counted == messageCount + 1

\* line 27: if (this.queryPromise)
mustWait_never == FALSE
mustWait == queryPromise # 0

\* addUserMessage(content), lines 26-66, up to its first await
addUserMessage ==
    LET c == Cardinality(Issued) + 1
        me == [NoCall EXCEPT !.idleAtIssue = Quiescent]
    IN /\ c \in Calls
       /\ microtasks = <<>>
       /\ IF mustWait
          THEN \* line 29: await this.queryPromise (a promise that is already
               \* settled resumes the call in the next microtask)
               /\ call' = [call EXCEPT ![c] = [me EXCEPT !.pc = "waiting", !.waitedOn = queryPromise]]
               /\ microtasks' = IF turn[queryPromise].st \in {"ended", "failed"}
                                THEN <<[kind |-> "resume", call |-> c, ok |-> TRUE]>>
                                ELSE microtasks
               /\ UNCHANGED <<queryPromise, messageCount, turn, ended>>
          ELSE /\ call' = [call EXCEPT ![c] = [me EXCEPT !.pc = "running"]]
               /\ messageCount' = counted
               /\ turn' = Started(c)
               /\ queryPromise' = c
               /\ ended' = FALSE
               /\ UNCHANGED microtasks
       /\ UNCHANGED <<sdkSessionId, subscribers, connData, broken, lastSend>>
       /\ UNCHANGED <<qvars, hvars, uvars, pvars>>

\* broadcastToSubscribers, lines 88-169: the wire type of an agent message
WireType(mtype) ==
    CASE mtype = "assistant" -> "assistant_message"
      [] mtype = "result" -> "result"
      [] mtype = "system" -> "system"
      [] mtype = "user" -> "user_message"

\* lines 103-125: the wire type of a content block
BlockWire(b) ==
    CASE b = "text" -> "assistant_message"
      [] b = "tool_use" -> "tool_use"
      [] b = "tool_result" -> "tool_result"
      [] OTHER -> ""

\* lines 102-129: the loop over the content blocks. wsMessage (ws) is declared
\* outside the loop and is not reset: a block of another type broadcasts the
\* message built for the block before it once more
nextBlock_back(blocks, i) == Len(blocks) + 1 - i
nextBlock(blocks, i) == i

RECURSIVE BlockWires(_, _, _)
BlockWires(blocks, i, ws) ==
    IF i > Len(blocks) THEN <<>>
    ELSE LET b == nextBlock(blocks, i)
             w == IF BlockWire(blocks[b]) # ""
                  THEN [wire |-> BlockWire(blocks[b]), block |-> b]
                  ELSE ws
         IN (IF w = NoWire THEN <<>> ELSE <<w>>) \o BlockWires(blocks, i + 1, w)

\* broadcastToSubscribers(message), lines 88-169: the wire messages it
\* broadcasts, in order, each with the content block it was built from (0: none)
Wire(m) ==
    IF m.type = "assistant" /\ ~m.text
    THEN BlockWires(m.blocks, 1, NoWire)
    ELSE IF m.type \in {"assistant", "result", "system", "user"}
    THEN <<[wire |-> WireType(m.type), block |-> 0]>>
    ELSE <<>>

\* one message of the agent stream of turn c, lines 42-56; the result is the
\* last message of a stream
streamMessage(c, m, h) ==
    /\ microtasks = <<>>
    /\ turn[c].st = "open"
    /\ IF Wire(m) = <<>>
       THEN UNCHANGED <<lastSend, subscribers>>
       ELSE /\ lastSend' = [type |-> Last(Wire(m)).wire, turn |-> c, to |-> Receivers,
                            info |-> <<>>, msgs |-> Wire(m)]
            /\ subscribers' = afterBroadcast
    /\ sdkSessionId' = IF m.type = "system" THEN h ELSE sdkSessionId
    /\ turn' = [turn EXCEPT ![c].st = IF m.type = "result" THEN "resulted" ELSE "open",
                            ![c].last = IF Wire(m) = <<>> THEN @ ELSE Last(Wire(m)).wire]
    /\ UNCHANGED <<queryPromise, messageCount, connData, broken, call, microtasks, ended>>
    /\ UNCHANGED <<qvars, hvars, uvars, pvars>>

\* the calls suspended at line 29 on the promise of turn c, in call order
Waiters(c) == Sorted({w \in Calls : call[w].pc = "waiting" /\ call[w].waitedOn = c})

\* the continuations that run when the promise of turn c settles: the owner's
\* await of line 65 was registered first, then the awaits of line 29 in call order
Reactions(c, ok) ==
    <<[kind |-> "return", call |-> c, ok |-> ok]>> \o
    [i \in 1..Len(Waiters(c)) |-> [kind |-> "resume", call |-> Waiters(c)[i], ok |-> ok]]

\* line 61: finally { this.queryPromise = null }
finallyPromise_kept == queryPromise
finallyPromise == 0

\* the agent stream of turn c ends after its result, lines 56 and 60-63
streamEnd(c) ==
    /\ microtasks = <<>>
    /\ turn[c].st = "resulted"
    /\ turn' = [turn EXCEPT ![c].st = "ended"]
    /\ queryPromise' = finallyPromise
    /\ microtasks' = Reactions(c, TRUE)
    /\ UNCHANGED <<messageCount, sdkSessionId, subscribers, connData, broken, call,
                   lastSend, ended>>
    /\ UNCHANGED <<qvars, hvars, uvars, pvars>>

\* lines 57-60: the catch block does not re-throw, so the promise is fulfilled
catchFulfils_rethrow == FALSE
catchFulfils == TRUE

\* line 59: the catch block calls broadcastError
catchBroadcasts_not == FALSE
catchBroadcasts == TRUE

\* the agent stream of turn c throws, lines 57-63
streamThrow(c) ==
    /\ microtasks = <<>>
    /\ turn[c].st = "open"
    /\ turn' = [turn EXCEPT ![c].st = "failed",
                            ![c].last = IF catchBroadcasts THEN "error" ELSE @]
    /\ lastSend' = IF catchBroadcasts
                   THEN [type |-> "error", turn |-> c, to |-> Receivers, info |-> <<>>,
                         msgs |-> <<[wire |-> "error", block |-> 0]>>]
                   ELSE lastSend
    /\ subscribers' = IF catchBroadcasts THEN afterBroadcast ELSE subscribers
    /\ queryPromise' = finallyPromise
    /\ microtasks' = Reactions(c, catchFulfils)
    /\ UNCHANGED <<messageCount, sdkSessionId, connData, broken, call, ended>>
    /\ UNCHANGED <<qvars, hvars, uvars, pvars>>

\* the oldest continuation runs: lines 65-66 of the owner, or lines 29-65 of a
\* call that waited (a rejected promise makes the await throw)
runMicrotask ==
    /\ microtasks # <<>>
    /\ LET m == Head(microtasks)
           c == m.call
       IN /\ microtasks' = Tail(microtasks)
          /\ IF m.kind = "return"
             THEN /\ call' = [call EXCEPT ![c].pc = IF m.ok THEN "returned" ELSE "threw"]
                  /\ UNCHANGED <<queryPromise, messageCount, turn, ended>>
             ELSE IF m.ok
             THEN /\ call' = [call EXCEPT ![c].pc = "running"]
                  /\ messageCount' = counted
                  /\ turn' = Started(c)
                  /\ queryPromise' = c
                  /\ ended' = FALSE
             ELSE /\ call' = [call EXCEPT ![c].pc = "threw"]
                  /\ UNCHANGED <<queryPromise, messageCount, turn, ended>>
    /\ UNCHANGED <<sdkSessionId, subscribers, connData, broken, lastSend>>
    /\ UNCHANGED <<qvars, hvars, uvars, pvars>>

\* endConversation(), lines 203-206
endConversation ==
    /\ microtasks = <<>>
    /\ sdkSessionId' = ""
    /\ queryPromise' = 0
    /\ ended' = TRUE
    /\ UNCHANGED <<messageCount, subscribers, connData, broken, call, turn,
                   lastSend, microtasks>>
    /\ UNCHANGED <<qvars, hvars, uvars, pvars>>

\* subscribe(): line 74, client.send: the snapshot goes to the new subscriber
sessionInfoTo_all(w) == subscribers \cup {w}
sessionInfoTo(w) == {w}

\* subscribe(client), lines 69-80, for a client whose send succeeds
subscribe(w) ==
    /\ microtasks = <<>>
    /\ w \notin broken
    /\ subscribers' = subscribers \cup {w}
    /\ connData' = [connData EXCEPT ![w] = SessionId]
    /\ lastSend' = [type |-> "session_info", turn |-> 0, to |-> sessionInfoTo(w),
                    info |-> <<SessionId, messageCount, queryPromise # 0>>,
                    msgs |-> <<[wire |-> "session_info", block |-> 0]>>]
    /\ UNCHANGED <<queryPromise, messageCount, sdkSessionId, broken, call, turn,
                   microtasks, ended>>
    /\ UNCHANGED <<qvars, hvars, uvars, pvars>>

\* unsubscribe(client), lines 83-85
unsubscribe(w) ==
    /\ microtasks = <<>>
    /\ w \in subscribers
    /\ subscribers' = subscribers \ {w}
    /\ UNCHANGED <<queryPromise, messageCount, sdkSessionId, connData, broken, call, turn,
                   lastSend, microtasks, ended>>
    /\ UNCHANGED <<qvars, hvars, uvars, pvars>>

\* the socket of a subscribed client fails: from now on its send() throws (line 175)
sendFails(w) ==
    /\ microtasks = <<>>
    /\ w \in (subscribers \cup clients) \ broken
    /\ broken' = broken \cup {w}
    /\ UNCHANGED <<queryPromise, messageCount, sdkSessionId, subscribers, connData, call,
                   turn, lastSend, microtasks, ended>>
    /\ UNCHANGED <<qvars, hvars, uvars, pvars>>

\* cleanup(), lines 197-200: the Session's own MessageQueue is closed and the
\* subscriber set is emptied; queryPromise and the agent stream of the turn in
\* flight are not referred to
cleanup ==
    /\ microtasks = <<>>
    /\ closed' = TRUE
    /\ resolvers' = <<>>
    /\ subscribers' = {}
    /\ UNCHANGED <<queue, nextRes, pushLog>>
    /\ UNCHANGED <<queryPromise, messageCount, sdkSessionId, connData, broken, call, turn,
                   lastSend, microtasks, ended>>
    /\ UNCHANGED <<hvars, uvars, pvars>>

\* the agent stream of some turn moves, or a continuation runs
Progress ==
    \/ \E c \in Calls, m \in PlainMessages, h \in Handles : streamMessage(c, m, h)
    \/ \E c \in Calls : streamEnd(c)
    \/ \E c \in Calls : streamThrow(c)
    \/ runMicrotask

NextNoEnd ==
    \/ addUserMessage
    \/ Progress

NextS ==
    \/ addUserMessage
    \/ Progress
    \/ endConversation

\* no call is suspended at line 29
NoneWaiting == \A c \in Calls : call[c].pc # "waiting"

\* turns of a Session that is torn down
NextAbort ==
    \/ NoneWaiting /\ addUserMessage
    \/ Progress
    \/ \E w \in Conns : subscribe(w)
    \/ cleanup

NextSubs ==
    \/ NoneWaiting /\ addUserMessage
    \/ Progress
    \/ \E w \in Conns : subscribe(w)
    \/ \E w \in Conns : unsubscribe(w)
    \/ \E w \in Conns : sendFails(w)

\* the Session streaming assistant messages made of content blocks to its
\* subscribers
NextStream ==
    \/ Quiescent /\ addUserMessage
    \/ \E c \in Calls, m \in BlockMessages : streamMessage(c, m, "")
    \/ \E c \in Calls : streamMessage(c, Message("result", TRUE, <<>>), "")
    \/ \E c \in Calls : streamEnd(c)
    \/ \E c \in Calls : streamThrow(c)
    \/ runMicrotask
    \/ \E w \in Conns : subscribe(w)
    \/ \E w \in Conns : sendFails(w)

\* ====================================================================
\* WebSocketHandler
\* ====================================================================
\* no entry of this.sessions under an id
NoSession == [on |-> FALSE, subs |-> {}, running |-> FALSE]
\* new Session(id, db), session.ts lines 18-23
NewSession == [on |-> TRUE, subs |-> {}, running |-> FALSE]

InitH ==
    /\ clients = {}
    /\ sessions = [id \in SessionIds |-> NoSession]
    /\ timers = <<>>
    /\ idle = [id \in SessionIds |-> 0]
    /\ pendingAct = [w \in Conns |-> ""]
    /\ instances = [i \in InstanceIds |-> ""]
    /\ hubSent = <<>>

\* one message sent by the handler: its type, the clients it reached and the
\* session or instance it names
Sent(type, to, arg) == [type |-> type, to |-> to, arg |-> arg]

\* ws.send(...) of a handler: it reaches the client if its socket works
Reply(w, type, arg) == Sent(type, Delivered({w}) \cap clients, arg)

\* the registered Sessions, and those without subscriber (hasSubscribers(),
\* session.ts lines 192-194)
Registered == {id \in SessionIds : sessions[id].on}
Empty == {id \in Registered : sessions[id].subs = {}}

\* the clients that are in the subscriber set of some registered Session
Subscribed == UNION {sessions[id].subs : id \in SessionIds}

\* the ticks a Session has been empty are counted from the step that empties it
Idle(ss) == [id \in SessionIds |->
                IF ss[id].on /\ ss[id].subs = {} /\ sessions[id].on /\ sessions[id].subs = {}
                THEN idle[id] ELSE 0]

\* the timers whose Session object is no longer the one registered under its id
Staled(ts, ids) == [i \in 1..Len(ts) |->
                      IF ts[i].id \in ids THEN [ts[i] EXCEPT !.stale = TRUE] ELSE ts[i]]

\* the timers, when a client subscribes to the Session id: those set for this
\* id have seen a client subscribe to it since they were set
Resubscribed(ts, id) == [i \in 1..Len(ts) |->
                      IF ts[i].id = id THEN [ts[i] EXCEPT !.resub = TRUE] ELSE ts[i]]

\* onOpen(ws), lines 145-189: a new connection (a client name is taken again
\* only when nothing refers to its earlier connection)
onOpen(w) ==
    /\ w \notin clients
    /\ w \notin Subscribed
    /\ pendingAct[w] = ""
    /\ clients' = clients \cup {w}
    /\ broken' = broken \ {w}
    /\ connData' = [connData EXCEPT ![w] = ""]
    /\ hubSent' = <<Sent("connected", {w}, ""), Sent("inbox_update", {w}, "")>>
    /\ UNCHANGED <<sessions, timers, idle, pendingAct, instances>>
    /\ UNCHANGED <<queryPromise, messageCount, sdkSessionId, subscribers, call, turn,
                   lastSend, microtasks, ended>>
    /\ UNCHANGED <<qvars, uvars, pvars>>

\* getOrCreateSession(sessionId), lines 134-143
getOrCreateSession(id) ==
    IF sessions[id].on THEN sessions ELSE [sessions EXCEPT ![id] = NewSession]

\* the chat handler, line 201: the sender is subscribed unless its recorded
\* session id is already the id of the Session
chatSubscribes(w, id) == connData[w] = "" \/ connData[w] # id

\* onMessage, case 'chat', lines 196-213, up to the first await of
\* addUserMessage: the Session starts the turn or makes it wait for the one
\* that is running
onMessageChat(w, id, newConversation) ==
    /\ w \in clients \ broken
    /\ LET got == getOrCreateSession(id)
           ss == IF chatSubscribes(w, id)
                 THEN [got EXCEPT ![id].subs = @ \cup {w}, ![id].running = TRUE]
                 ELSE [got EXCEPT ![id].running = TRUE]
       IN /\ sessions' = ss
          /\ connData' = IF chatSubscribes(w, id) THEN [connData EXCEPT ![w] = id] ELSE connData
          /\ hubSent' = IF chatSubscribes(w, id) THEN <<Reply(w, "session_info", id)>> ELSE <<>>
          /\ timers' = IF chatSubscribes(w, id) THEN Resubscribed(timers, id) ELSE timers
          /\ idle' = Idle(ss)
    /\ UNCHANGED <<clients, pendingAct, instances, broken>>
    /\ UNCHANGED <<queryPromise, messageCount, sdkSessionId, subscribers, call, turn,
                   lastSend, microtasks, ended>>
    /\ UNCHANGED <<qvars, uvars, pvars>>

\* onMessage, case 'subscribe', lines 215-237
onMessageSubscribe(w, id) ==
    /\ w \in clients \ broken
    /\ IF sessions[id].on
       THEN LET cur == connData[w]
                left == IF cur # "" /\ cur # id /\ sessions[cur].on
                        THEN [sessions EXCEPT ![cur].subs = @ \ {w}]
                        ELSE sessions
                ss == [left EXCEPT ![id].subs = @ \cup {w}]
            IN /\ sessions' = ss
               /\ connData' = [connData EXCEPT ![w] = id]
               /\ hubSent' = <<Reply(w, "session_info", id), Reply(w, "subscribed", id)>>
               /\ timers' = Resubscribed(timers, id)
               /\ idle' = Idle(ss)
       ELSE /\ hubSent' = <<Reply(w, "error", "Session not found")>>
            /\ UNCHANGED <<sessions, connData, timers, idle>>
    /\ UNCHANGED <<clients, pendingAct, instances, broken>>
    /\ UNCHANGED <<queryPromise, messageCount, sdkSessionId, subscribers, call, turn,
                   lastSend, microtasks, ended>>
    /\ UNCHANGED <<qvars, uvars, pvars>>

\* onMessage, case 'unsubscribe', lines 239-251
onMessageUnsubscribe(w, id) ==
    /\ w \in clients \ broken
    /\ IF sessions[id].on
       THEN LET ss == [sessions EXCEPT ![id].subs = @ \ {w}]
            IN /\ sessions' = ss
               /\ connData' = [connData EXCEPT ![w] = ""]
               /\ hubSent' = <<Reply(w, "unsubscribed", id)>>
               /\ idle' = Idle(ss)
       ELSE /\ hubSent' = <<>>
            /\ UNCHANGED <<sessions, connData, idle>>
    /\ UNCHANGED <<clients, timers, pendingAct, instances, broken>>
    /\ UNCHANGED <<queryPromise, messageCount, sdkSessionId, subscribers, call, turn,
                   lastSend, microtasks, ended>>
    /\ UNCHANGED <<qvars, uvars, pvars>>

\* the order in which this.sessions is walked
SessionOrder == <<"s1", "s2">>

\* cleanupEmptySessions(), lines 363-376, on the registry ss: one timer per
\* Session without subscriber
NewTimers(ss) ==
    LET ids == SelectIdx(SessionOrder, 1, {id \in SessionIds : ss[id].on /\ ss[id].subs = {}})
    IN [i \in 1..Len(ids) |-> [id |-> ids[i], stale |-> FALSE, resub |-> FALSE, left |-> Grace]]

\* onClose(ws), lines 342-361
onClose(w) ==
    /\ w \in clients
    /\ LET cur == connData[w]
           ss == IF cur # "" /\ sessions[cur].on
                 THEN [sessions EXCEPT ![cur].subs = @ \ {w}]
                 ELSE sessions
       IN /\ Len(timers) + Len(NewTimers(ss)) <= MaxTimers
          /\ sessions' = ss
          /\ timers' = timers \o NewTimers(ss)
          /\ idle' = Idle(ss)
    /\ clients' = clients \ {w}
    /\ UNCHANGED <<pendingAct, instances, hubSent, connData, broken>>
    /\ UNCHANGED <<queryPromise, messageCount, sdkSessionId, subscribers, call, turn,
                   lastSend, microtasks, ended>>
    /\ UNCHANGED <<qvars, uvars, pvars>>

\* line 368: the test the timer makes before it removes the Session
timerRemoves(t) == t.stale \/ sessions[t.id].subs = {}

\* the callback of the oldest timer runs, lines 367-373: it tests the Session
\* object it was set for (a Session that was removed has no subscriber, its
\* cleanup() cleared them) and deletes the entry of the id
cleanupTimeout ==
    /\ timers # <<>>
    /\ Head(timers).left = 0
    /\ LET t == Head(timers)
       IN IF timerRemoves(t)
          THEN /\ sessions' = [sessions EXCEPT ![t.id] = NoSession]
               /\ timers' = Staled(Tail(timers), {t.id})
               /\ idle' = [idle EXCEPT ![t.id] = 0]
          ELSE /\ timers' = Tail(timers)
               /\ UNCHANGED <<sessions, idle>>
    /\ UNCHANGED <<clients, pendingAct, instances, hubSent, connData, broken>>
    /\ UNCHANGED <<queryPromise, messageCount, sdkSessionId, subscribers, call, turn,
                   lastSend, microtasks, ended>>
    /\ UNCHANGED <<qvars, uvars, pvars>>

\* time passes by one tick; a timer that is due runs first
tick ==
    /\ \A i \in 1..Len(timers) : timers[i].left > 0
    /\ \/ timers # <<>>
       \/ \E id \in Empty : idle[id] <= Grace
    /\ timers' = [i \in 1..Len(timers) |-> [timers[i] EXCEPT !.left = @ - 1]]
    /\ idle' = [id \in SessionIds |->
                  IF id \in Empty THEN (IF idle[id] <= Grace THEN idle[id] + 1 ELSE idle[id])
                  ELSE 0]
    /\ UNCHANGED <<clients, sessions, pendingAct, instances, hubSent, connData, broken>>
    /\ UNCHANGED <<queryPromise, messageCount, sdkSessionId, subscribers, call, turn,
                   lastSend, microtasks, ended>>
    /\ UNCHANGED <<qvars, uvars, pvars>>

\* the Session registered under id broadcasts an event of the turn it is
\* processing (session.ts lines 171-181); last: the turn ends with it
sessionEvent(id, last) ==
    /\ sessions[id].on /\ sessions[id].running
    /\ LET ss == [sessions EXCEPT ![id].subs = Delivered(@), ![id].running = ~last]
       IN /\ sessions' = ss
          /\ idle' = Idle(ss)
    /\ hubSent' = <<Sent("session_event", Delivered(sessions[id].subs), id)>>
    /\ UNCHANGED <<clients, timers, pendingAct, instances, connData, broken>>
    /\ UNCHANGED <<queryPromise, messageCount, sdkSessionId, subscribers, call, turn,
                   lastSend, microtasks, ended>>
    /\ UNCHANGED <<qvars, uvars, pvars>>

\* the hub-wide broadcasts
BroadcastTypes == {"inbox_update", "ui_state_update", "listener_log"}

\* broadcastInboxUpdate (lines 70-85), broadcastUIStateUpdate (lines 96-111),
\* broadcastComponentInstance (lines 113-128), broadcastListenerLog (lines
\* 389-402): the message they send
Broadcast(type, arg) == Sent(type, Delivered(clients), arg)

\* a hub-wide broadcast made by the poll timer, a state write or a listener
hubBroadcast(type) ==
    /\ clients # {}
    /\ hubSent' = <<Broadcast(type, "")>>
    /\ UNCHANGED <<clients, sessions, timers, idle, pendingAct, instances, connData, broken>>
    /\ UNCHANGED <<queryPromise, messageCount, sdkSessionId, subscribers, call, turn,
                   lastSend, microtasks, ended>>
    /\ UNCHANGED <<qvars, uvars, pvars>>

\* onMessage, case 'execute_action', lines 263-289, up to the await of
\* executeAction
onMessageExecuteAction(w, id) ==
    /\ w \in clients \ broken
    /\ pendingAct[w] = ""
    /\ IF sessions[id].on
       THEN /\ pendingAct' = [pendingAct EXCEPT ![w] = id]
            /\ UNCHANGED hubSent
       ELSE /\ hubSent' = <<Reply(w, "error", "Session not found")>>
            /\ UNCHANGED pendingAct
    /\ UNCHANGED <<clients, sessions, timers, idle, instances, connData, broken>>
    /\ UNCHANGED <<queryPromise, messageCount, sdkSessionId, subscribers, call, turn,
                   lastSend, microtasks, ended>>
    /\ UNCHANGED <<qvars, uvars, pvars>>

\* the results an action returns: success, the component instances it declares
\* (none: no components field) and refreshInbox
ActionResults == [success : BOOLEAN,
                  components : {<<>>, <<"c1">>, <<"c1", "c2">>},
                  refreshInbox : BOOLEAN]

\* lines 300-312: the instances of the result that are registered and broadcast
declared(result) == result.components

\* lines 303-307, registerInstance (component-manager.ts lines 86-102)
RECURSIVE registerAll(_, _, _)
registerAll(reg, comps, id) ==
    IF comps = <<>> THEN reg
    ELSE registerAll([reg EXCEPT ![Head(comps)] = id], Tail(comps), id)

\* the continuation of the execute_action handler, lines 289-325, when
\* executeAction has returned result. A send to the requester that throws
\* (line 292) leaves the try block: the catch block's send throws as well
executeActionReturns(w, result) ==
    /\ pendingAct[w] # ""
    /\ pendingAct' = [pendingAct EXCEPT ![w] = ""]
    /\ IF w \in broken
       THEN /\ hubSent' = <<>>
            /\ UNCHANGED instances
       ELSE LET id == pendingAct[w]
                comps == declared(result)
            IN /\ instances' = registerAll(instances, comps, id)
               /\ hubSent' = <<Reply(w, "action_result", id)>> \o
                             [i \in 1..Len(comps) |-> Broadcast("component_instance", comps[i])] \o
                             (IF result.refreshInbox THEN <<Broadcast("inbox_update", "")>> ELSE <<>>)
    /\ UNCHANGED <<clients, sessions, timers, idle, connData, broken>>
    /\ UNCHANGED <<queryPromise, messageCount, sdkSessionId, subscribers, call, turn,
                   lastSend, microtasks, ended>>
    /\ UNCHANGED <<qvars, uvars, pvars>>

\* the socket of a connected client fails
socketFails(w) ==
    /\ w \in clients
    /\ sendFails(w)

\* the registry of Sessions, its subscribers and the cleanup timers
NextHub ==
    \/ \E w \in Conns : onOpen(w)
    \/ \E w \in Conns, id \in SessionIds, n \in BOOLEAN : onMessageChat(w, id, n)
    \/ \E w \in Conns, id \in SessionIds : onMessageSubscribe(w, id)
    \/ \E w \in Conns, id \in SessionIds : onMessageUnsubscribe(w, id)
    \/ \E w \in Conns : onClose(w)
    \/ cleanupTimeout
    \/ tick

\* the broadcasts of the hub and of its Sessions, and the execution of actions
NextCast ==
    \/ \E w \in Conns : onOpen(w)
    \/ \E w \in Conns : onMessageChat(w, SessionId, FALSE)
    \/ \E w \in Conns : socketFails(w)
    \/ \E last \in BOOLEAN : sessionEvent(SessionId, last)
    \/ \E type \in BroadcastTypes : hubBroadcast(type)
    \/ \E w \in Conns, id \in SessionIds : onMessageExecuteAction(w, id)
    \/ \E w \in Conns, result \in ActionResults : executeActionReturns(w, result)

\* actions executed for several Sessions
NextInstances ==
    \/ \E w \in Conns : onOpen(w)
    \/ \E w \in Conns, id \in SessionIds : onMessageChat(w, id, FALSE)
    \/ \E w \in Conns, id \in SessionIds : onMessageExecuteAction(w, id)
    \/ \E w \in Conns, result \in ActionResults : executeActionReturns(w, result)

\* ====================================================================
\* UIStateManager
\* ====================================================================
\* db.getUIState(stateId) when the table has no row for the id
NoRow == "norow"
\* no entry of this.templates under an id
NoTemplate == "notemplate"
\* the value null
Null == "null"
\* the JSON values that are falsy in JavaScript (0, false, "" and null)
Falsy == {"0", "false", "", Null}

\* this.templates after loadAllTemplates() found one template, for "task_board"
LoadedTemplates == [id \in StateIds |-> IF id = "task_board" THEN "init" ELSE NoTemplate]

NoWrite == [id |-> "", value |-> "", pc |-> "none", did |-> <<>>, init |-> FALSE]

\* db.getUIState(stateId): the persisted value of the row, parsed from JSON
getUIState(id) == persisted[id]
\* db.setUIState(stateId, data): whole-value replace of the row
setUIState(id, v) == [persisted EXCEPT ![id] = v]
\* db.deleteUIState(stateId): the row is removed
deleteUIState(id) == [persisted EXCEPT ![id] = NoRow]

\* getState(): line 442, if (!result): the test for a missing row
noResult(result) == result = NoRow \/ result \in Falsy

\* getState(): lines 443-448, the fallback to the template's initial state
fallback_none(id) == Null
fallback(id) == IF templates[id] # NoTemplate THEN templates[id] ELSE Null

\* getState(stateId), lines 438-456: the value it resolves with
getStateValue(id) ==
    IF noResult(getUIState(id)) THEN fallback(id) ELSE getUIState(id)

\* getState(stateId), lines 438-456: the table after the call (db.getUIState is
\* its only use of the database)
afterGetState_init(id) ==
    IF noResult(getUIState(id)) /\ templates[id] # NoTemplate
    THEN setUIState(id, templates[id])
    ELSE persisted
afterGetState(id) == persisted

\* a call of getState(stateId)
getState(id) ==
    /\ lastGet' = [id |-> id, value |-> getStateValue(id)]
    /\ persisted' = afterGetState(id)
    /\ UNCHANGED <<templates, writes, stateLog, notified, lastResponse,
                   updateCallbacks, lastInit, files, loading>>
    /\ UNCHANGED <<qvars, svars, hvars, pvars>>

\* handleGetUIState (sync.ts lines 154-211): 404 when getState resolves with null
handleGetUIState(id) ==
    /\ lastResponse' = IF getStateValue(id) = Null
                       THEN [id |-> id, status |-> 404, data |-> ""]
                       ELSE [id |-> id, status |-> 200, data |-> getStateValue(id)]
    /\ persisted' = afterGetState(id)
    /\ UNCHANGED <<templates, writes, stateLog, notified, lastGet,
                   updateCallbacks, lastInit, files, loading>>
    /\ UNCHANGED <<qvars, svars, hvars, pvars>>

\* onStateUpdate(callback), lines 507-513: Set.add keeps the insertion order
onStateUpdate(cb) ==
    /\ \A i \in 1..Len(updateCallbacks) : updateCallbacks[i] # cb
    /\ updateCallbacks' = Append(updateCallbacks, cb)
    /\ UNCHANGED <<persisted, templates, writes, stateLog, notified, lastGet,
                   lastResponse, lastInit, files, loading>>
    /\ UNCHANGED <<qvars, svars, hvars, pvars>>

\* the function onStateUpdate returned is called (lines 510-512)
offStateUpdate(cb) ==
    /\ \E i \in 1..Len(updateCallbacks) : updateCallbacks[i] = cb
    /\ updateCallbacks' = SelectSeq(updateCallbacks, LAMBDA c : c # cb)
    /\ UNCHANGED <<persisted, templates, writes, stateLog, notified, lastGet,
                   lastResponse, lastInit, files, loading>>
    /\ UNCHANGED <<qvars, svars, hvars, pvars>>

\* setState(stateId, data), lines 461-465, up to the await of the audit append:
\* db.setUIState persists the value, or throws and setState re-throws
startWrite(id, v, dbFails, init) ==
    LET k == Cardinality({w \in Writes : writes[w].pc # "none"}) + 1
    IN /\ k \in Writes
       /\ IF dbFails
          THEN /\ writes' = [writes EXCEPT ![k] = [id |-> id, value |-> v, pc |-> "threw",
                                                   did |-> <<>>, init |-> init]]
               /\ UNCHANGED persisted
          ELSE /\ writes' = [writes EXCEPT ![k] = [id |-> id, value |-> v, pc |-> "persisted",
                                                   did |-> <<"persist">>, init |-> init]]
               /\ persisted' = setUIState(id, v)

\* a call of setState(stateId, data)
setState(id, v, dbFails) ==
    /\ startWrite(id, v, dbFails, FALSE)
    /\ UNCHANGED <<templates, stateLog, notified, lastGet, lastResponse,
                   updateCallbacks, lastInit, files, loading>>
    /\ UNCHANGED <<qvars, svars, hvars, pvars>>

\* setState(), lines 466-470: what follows the persist: logStateUpdate appends
\* the audit record or catches the failure of the append (lines 531-547), then
\* notifyStateUpdate runs
returnSteps_noNotify(logFails) == IF logFails THEN <<>> ELSE <<"audit">>
returnSteps(logFails) == IF logFails THEN <<"notify">> ELSE <<"audit", "notify">>

\* notifyStateUpdate(), lines 518-526: the callbacks invoked, in order, when the
\* callbacks of throwers throw
invoked_abort(cbs, throwers) ==
    LET at == {i \in 1..Len(cbs) : cbs[i] \in throwers}
    IN IF at = {} THEN cbs
       ELSE SubSeq(cbs, 1, CHOOSE i \in at : \A j \in at : i <= j)
invoked(cbs, throwers) == cbs

\* setState(): the table when the call returns (nothing is written after the persist)
valueAtReturn_late(k) == setUIState(writes[k].id, writes[k].value)
valueAtReturn(k) == persisted

Has(s, x) == \E i \in 1..Len(s) : s[i] = x

\* the audit append of write k completes or fails, the subscribers are notified
\* and setState returns
setStateReturns(k, logFails, throwers) ==
    /\ writes[k].pc = "persisted"
    /\ writes' = [writes EXCEPT ![k].pc = "returned",
                                ![k].did = @ \o returnSteps(logFails)]
    /\ stateLog' = IF Has(returnSteps(logFails), "audit")
                   THEN Append(stateLog, [id |-> writes[k].id, write |-> k])
                   ELSE stateLog
    /\ notified' = IF Has(returnSteps(logFails), "notify")
                   THEN Append(notified,
                               [id |-> writes[k].id, value |-> writes[k].value, write |-> k,
                                to |-> invoked(updateCallbacks, throwers),
                                threw |-> {cb \in throwers : Has(updateCallbacks, cb)}])
                   ELSE notified
    /\ persisted' = valueAtReturn(k)
    /\ lastInit' = IF writes[k].init THEN [id |-> writes[k].id, result |-> TRUE] ELSE lastInit
    /\ UNCHANGED <<templates, lastGet, lastResponse, updateCallbacks, files, loading>>
    /\ UNCHANGED <<qvars, svars, hvars, pvars>>

\* deleteState(stateId), lines 494-502: the audit records after the call (the
\* log file is not touched)
auditAfterDelete_pruned(id) == SelectSeq(stateLog, LAMBDA e : e.id # id)
auditAfterDelete(id) == stateLog

\* deleteState(stateId), lines 494-502
deleteState(id) ==
    /\ persisted[id] # NoRow
    /\ persisted' = deleteUIState(id)
    /\ stateLog' = auditAfterDelete(id)
    /\ UNCHANGED <<templates, writes, notified, lastGet, lastResponse,
                   updateCallbacks, lastInit, files, loading>>
    /\ UNCHANGED <<qvars, svars, hvars, pvars>>

\* initializeStateIfNeeded(stateId), lines 575-595, up to the await of setState
initializeStateIfNeeded(id, dbFails) ==
    /\ IF getStateValue(id) # Null \/ templates[id] = NoTemplate
       THEN /\ lastInit' = [id |-> id, result |-> FALSE]
            /\ persisted' = afterGetState(id)
            /\ UNCHANGED writes
       ELSE /\ startWrite(id, templates[id], dbFails, TRUE)
            /\ lastInit' = IF dbFails THEN [id |-> id, result |-> FALSE] ELSE lastInit
    /\ UNCHANGED <<templates, stateLog, notified, lastGet, lastResponse,
                   updateCallbacks, files, loading>>
    /\ UNCHANGED <<qvars, svars, hvars, pvars>>

\* the callbacks that throw during one notification round
Throwers == {{}, {"cb1"}, {"cb2"}}

\* reads, writes and deletes
NextState ==
    \/ \E id \in StateIds : getState(id)
    \/ \E id \in StateIds : handleGetUIState(id)
    \/ \E id \in StateIds, v \in Values, f \in BOOLEAN : setState(id, v, f)
    \/ \E k \in Writes : setStateReturns(k, FALSE, {})
    \/ \E id \in StateIds : deleteState(id)

\* initializeStateIfNeeded among writes and deletes
NextInit ==
    \/ \E id \in StateIds, f \in BOOLEAN : initializeStateIfNeeded(id, f)
    \/ \E id \in StateIds, v \in {"0", "a"} : setState(id, v, FALSE)
    \/ \E k \in Writes : setStateReturns(k, FALSE, {})
    \/ \E id \in StateIds : deleteState(id)
    \/ \E id \in StateIds : getState(id)

\* writes whose persist or audit append may fail
NextWrites ==
    \/ \E id \in StateIds, v \in {"a", "b"}, f \in BOOLEAN : setState(id, v, f)
    \/ \E k \in Writes, f \in BOOLEAN : setStateReturns(k, f, {})

\* writes and the callbacks they notify
NextNotify ==
    \/ \E v \in {"a", "b"} : setState("task_board", v, FALSE)
    \/ \E k \in Writes, th \in Throwers : setStateReturns(k, FALSE, th)
    \/ \E cb \in Callbacks : onStateUpdate(cb)
    \/ \E cb \in Callbacks : offStateUpdate(cb)

\* the directory agent/custom_scripts/ui-states when the server starts: one
\* template file, for "task_board"
NoFile == [id |-> "", initialState |-> "", throws |-> FALSE, exists |-> FALSE]
Template(id, init) == [id |-> id, initialState |-> init, throws |-> FALSE, exists |-> TRUE]
InitialFiles ==
    [f \in FileNames |-> IF f = "task_board.ts" THEN Template("task_board", "init") ELSE NoFile]

InitU ==
    /\ persisted = [id \in StateIds |-> NoRow]
    /\ templates = LoadedTemplates
    /\ writes = [k \in Writes |-> NoWrite]
    /\ stateLog = <<>>
    /\ notified = <<>>
    /\ lastGet = [id |-> "", value |-> ""]
    /\ lastResponse = [id |-> "", status |-> 0, data |-> ""]
    /\ updateCallbacks = <<>>
    /\ lastInit = [id |-> "", result |-> FALSE]
    /\ files = InitialFiles
    /\ loading = [pc |-> "idle", rest |-> <<>>, dirty |-> FALSE, before |-> LoadedTemplates]

\* --------------------------------------------------------------------
\* loadAllTemplates / loadTemplate (the same code in ActionsManager,
\* ComponentManager and UIStateManager, up to the extension and the shape test)
\* --------------------------------------------------------------------
\* file.endsWith(".ts")
EndsWithTs == {"_draft.ts", "notes.ts", "task_board.ts"}
\* file.startsWith("_")
StartsWithUnderscore == {"_draft.ts"}

\* loadAllTemplates(), line 389: the files handed to loadTemplate
eligible_private(f) == f \in EndsWithTs
eligible(f) == f \in EndsWithTs /\ f \notin StartsWithUnderscore

\* a file whose import throws
Throwing == [id |-> "", initialState |-> "", throws |-> TRUE, exists |-> TRUE]

\* loadTemplate(), line 410: module.config?.id && module.config.initialState !== undefined
valid(module) == module.id # "" /\ module.initialState # "undefined"

\* what a file can be changed to: removed, a private draft and a backup that
\* declare the id of another file, valid templates, a template without id or
\* without initial state, a file whose import fails
FileEdits(f) ==
    CASE f = "_draft.ts" -> {NoFile, Template("task_board", "draft")}
      [] f = "notes.bak" -> {NoFile, Template("notes", "bak")}
      [] f = "notes.ts" -> {NoFile, Template("notes", "init"), Throwing}
      [] OTHER -> {Template("task_board", "init"), Template("task_board", "init2"),
                   Template("", "init"), Template("task_board", "undefined")}

\* a template file is added, changed or removed
editFile(f, c) ==
    /\ c # files[f]
    /\ files' = [files EXCEPT ![f] = c]
    /\ loading' = IF loading.pc = "idle" THEN loading ELSE [loading EXCEPT !.dirty = TRUE]
    /\ UNCHANGED <<persisted, templates, writes, stateLog, notified, lastGet, lastResponse,
                   updateCallbacks, lastInit>>
    /\ UNCHANGED <<qvars, svars, hvars, pvars>>

\* loadAllTemplates(), line 378: this.templates.clear()
cleared_kept == templates
cleared == [id \in StateIds |-> NoTemplate]

\* loadAllTemplates(), lines 377-386, up to the await of readdir
loadAllTemplates ==
    /\ loading.pc = "idle"
    /\ templates' = cleared
    /\ loading' = [pc |-> "readdir", rest |-> <<>>, dirty |-> FALSE, before |-> templates]
    /\ UNCHANGED <<persisted, writes, stateLog, notified, lastGet, lastResponse,
                   updateCallbacks, lastInit, files>>
    /\ UNCHANGED <<qvars, svars, hvars, pvars>>

\* readdir returns: the loop of lines 388-392 will hand these files to loadTemplate
readdirReturns ==
    /\ loading.pc = "readdir"
    /\ loading' = [loading EXCEPT !.pc = "loading",
                                  !.rest = SelectSeq(DirOrder,
                                               LAMBDA f : files[f].exists /\ eligible(f))]
    /\ UNCHANGED <<persisted, templates, writes, stateLog, notified, lastGet, lastResponse,
                   updateCallbacks, lastInit, files>>
    /\ UNCHANGED <<qvars, svars, hvars, pvars>>

\* loadTemplate(filename), lines 404-419, for the next file of the loop: the
\* import of a removed or broken file throws and is caught, a module of the
\* wrong shape is skipped, a valid one is set under its id
loadTemplate ==
    /\ loading.pc = "loading"
    /\ loading.rest # <<>>
    /\ LET module == files[Head(loading.rest)]
       IN templates' = IF module.exists /\ ~module.throws /\ valid(module)
                       THEN [templates EXCEPT ![module.id] = module.initialState]
                       ELSE templates
    /\ loading' = [loading EXCEPT !.rest = Tail(@)]
    /\ UNCHANGED <<persisted, writes, stateLog, notified, lastGet, lastResponse,
                   updateCallbacks, lastInit, files>>
    /\ UNCHANGED <<qvars, svars, hvars, pvars>>

\* loadAllTemplates() returns (line 398)
loadAllReturns ==
    /\ loading.pc = "loading"
    /\ loading.rest = <<>>
    /\ loading' = [loading EXCEPT !.pc = "idle", !.dirty = FALSE]
    /\ UNCHANGED <<persisted, templates, writes, stateLog, notified, lastGet, lastResponse,
                   updateCallbacks, lastInit, files>>
    /\ UNCHANGED <<qvars, svars, hvars, pvars>>

\* template files change, the templates are reloaded and looked up meanwhile
NextTemplates ==
    \/ \E f \in FileNames : \E c \in FileEdits(f) : editFile(f, c)
    \/ loadAllTemplates
    \/ readdirReturns
    \/ loadTemplate
    \/ loadAllReturns
    \/ getState("task_board")

\* ====================================================================
\* ActionsManager
\* ====================================================================
NoRun == [pc |-> "none", lookup |-> "", outcome |-> "", result |-> [success |-> FALSE, message |-> ""],
          error |-> "", appendFailed |-> FALSE]

InitP ==
    /\ runs = [k \in Runs |-> NoRun]
    /\ actLog = <<>>

\* what this.instances.get(instanceId) and this.templates.get(instance.templateId) find
Lookups == {"found", "noInstance", "noTemplate"}
\* how the handler ends: it resolves with a success or a failure result, or throws
Outcomes == {"success", "failure", "throws"}

\* lines 122 and 131: if (!instance), if (!template): the handler is reached
\* when both lookups find something
known_always(lookup) == TRUE
known(lookup) == lookup = "found"

\* executeAction(instanceId, context), lines 115-145, up to the await of the
\* handler: the early returns for a missing instance or template
executeAction(lookup) ==
    LET k == Cardinality({r \in Runs : runs[r].pc # "none"}) + 1
    IN /\ k \in Runs
       /\ runs' = [runs EXCEPT ![k] =
              CASE known(lookup) -> [NoRun EXCEPT !.pc = "handler", !.lookup = lookup]
                [] lookup = "noInstance" ->
                       [NoRun EXCEPT !.pc = "returned", !.lookup = lookup,
                                     !.result = [success |-> FALSE,
                                                 message |-> "Action instance not found"]]
                [] OTHER ->
                       [NoRun EXCEPT !.pc = "returned", !.lookup = lookup,
                                     !.result = [success |-> FALSE,
                                                 message |-> "Template not found"]]]
       /\ UNCHANGED actLog
       /\ UNCHANGED <<qvars, svars, hvars, uvars>>

\* executeAction(), lines 146-153: the catch of what the handler throws
afterThrow_raise == "raised"
afterThrow == "logging"

\* executeAction(), lines 142-167: the handler of run k ends; a throw is caught
\* and turned into a failure result; logExecution is called and awaited
handlerEnds(k, outcome) ==
    /\ runs[k].pc = "handler"
    /\ runs' = [runs EXCEPT ![k] =
           CASE outcome = "success" ->
                    [@ EXCEPT !.pc = "logging", !.outcome = outcome,
                              !.result = [success |-> TRUE, message |-> "done"]]
             [] outcome = "failure" ->
                    [@ EXCEPT !.pc = "logging", !.outcome = outcome,
                              !.result = [success |-> FALSE, message |-> "declined"]]
             [] OTHER ->
                    [@ EXCEPT !.pc = afterThrow, !.outcome = outcome, !.error = "boom",
                              !.result = [success |-> FALSE, message |-> "Action failed: boom"]]]
    /\ UNCHANGED actLog
    /\ UNCHANGED <<qvars, svars, hvars, uvars>>

\* logExecution(entry), lines 174-182: the log after the append, which may fail
\* and is then caught
appended_none(log, entry, fails) == log
appended(log, entry, fails) == IF fails THEN log ELSE Append(log, entry)

\* the append of run k completes or fails and executeAction returns the result
\* (lines 158-168)
logReturns(k, fails) ==
    /\ runs[k].pc = "logging"
    /\ actLog' = appended(actLog, [run |-> k, result |-> runs[k].result,
                                   error |-> runs[k].error], fails)
    /\ runs' = [runs EXCEPT ![k].pc = "returned", ![k].appendFailed = fails]
    /\ UNCHANGED <<qvars, svars, hvars, uvars>>

NextActions ==
    \/ \E lookup \in Lookups : executeAction(lookup)
    \/ \E k \in Runs, outcome \in Outcomes : handlerEnds(k, outcome)
    \/ \E k \in Runs, fails \in BOOLEAN : logReturns(k, fails)

\* messages that name a session, and actions executed by their instance id
NextNotFound ==
    \/ \E w \in Conns : onOpen(w)
    \/ \E w \in Conns, id \in SessionIds : onMessageChat(w, id, FALSE)
    \/ \E w \in Conns, id \in SessionIds : onMessageSubscribe(w, id)
    \/ \E w \in Conns, id \in SessionIds : onMessageExecuteAction(w, id)
    \/ \E w \in Conns : executeActionReturns(w, [success |-> TRUE, components |-> <<>>,
                                                   refreshInbox |-> FALSE])
    \/ \E lookup \in Lookups : executeAction(lookup)
    \/ \E k \in Runs : handlerEnds(k, "success")
    \/ \E k \in Runs : logReturns(k, FALSE)

Init == InitQ /\ InitS /\ InitH /\ InitU /\ InitP

\* the MessageQueue alone
SpecQ == Init /\ [][NextQ]_vars

\* the Session under any overlap of addUserMessage calls, without subscribers
Spec == Init /\ [][NextS]_vars

\* the same when endConversation() is never called
SpecNoEnd == Init /\ [][NextNoEnd]_vars

\* the Session with its subscribers, when a call is made only while no earlier
\* call is still suspended and endConversation() is never called
SpecSubs == Init /\ [][NextSubs]_vars

\* the Session streaming content blocks to its subscribers
SpecStream == Init /\ [][NextStream]_vars

\* the hub: connections, the registry of Sessions and its cleanup timers
SpecHub == Init /\ [][NextHub]_vars

\* the hub: broadcasts and actions
SpecCast == Init /\ [][NextCast]_vars

\* the hub: the component instances of executed actions
SpecInstances == Init /\ [][NextInstances]_vars

\* the Session torn down while it processes turns. The continuations of settled
\* promises are run by the event loop; the events of the agent stream come from
\* the agent and nothing makes them come
SpecAbort == Init /\ [][NextAbort]_vars /\ WF_vars(runMicrotask)

\* the lookups of sessions and of action instances
SpecNotFound == Init /\ [][NextNotFound]_vars

\* the UI state store
SpecState == Init /\ [][NextState]_vars

\* the UI state store: initializeStateIfNeeded
SpecInit == Init /\ [][NextInit]_vars

\* the UI state store: overlapping writes
SpecWrites == Init /\ [][NextWrites]_vars

\* the UI state store: writes and their notifications
SpecNotify == Init /\ [][NextNotify]_vars

\* the template files and their reload
SpecTemplates == Init /\ [][NextTemplates]_vars

\* the execution of actions
SpecActions == Init /\ [][NextActions]_vars

\* ====================================================================
\* Properties of the MessageQueue (checked under SpecQ)
\* ====================================================================
\* the calls that hold an item, in call order, and the items they hold
Holders == Sorted({k \in NextCalls : nextRes[k].st = "value"})
Held == [i \in 1..Len(Holders) |-> nextRes[Holders[i]].value]

\* position of an item among the pushes that succeeded
PushIndex(item) == CHOOSE i \in 1..Len(Pushed) : Pushed[i] = item

\* C3: the queue is FIFO: the items the next() calls returned (each with
\* done:false), taken in call order, followed by the items still queued, are
\* exactly the items pushed, in push order.
C3_Fifo ==
    /\ Held \o queue = Pushed
    /\ \A k \in NextCalls : nextRes[k].st = "value" => nextRes[k].value \in Items

\* A, B and C (in some order) were all queued before the first next(), and three
\* next() calls returned them
C3_Witness ==
    /\ nextRes[1].queued = 3
    /\ \A k \in 1..3 : nextRes[k].st = "value"

\* C4: a next() made on a closed queue never suspends: it returns {done:true}
\* if the queue holds no item, and the queued item, with done:false, otherwise.
C4_ClosedNext ==
    \A k \in NextCalls :
        nextRes[k].wasClosed =>
            /\ nextRes[k].st # "suspended"
            /\ nextRes[k].queued = 0 => nextRes[k].st = "done"
            /\ nextRes[k].queued > 0 => nextRes[k].st = "value"

\* after close(), one next() returned an item queued before and a later one {done:true}
C4_Witness ==
    \E i, j \in NextCalls :
        /\ i < j
        /\ nextRes[i].wasClosed /\ nextRes[i].st = "value"
        /\ nextRes[j].wasClosed /\ nextRes[j].st = "done"

\* C5: a next() that is suspended when close() is called observes completion:
\* once the queue is closed no next() call is left suspended. (close() empties
\* the resolver list, so nothing can resolve such a call later.)
C5_WaitersComplete ==
    closed => \A k \in NextCalls : nextRes[k].st # "suspended"

\* C6: a push() on a closed queue fails and changes neither the queue nor the
\* suspended calls, and a closed queue stays closed.
C6_ClosedPush ==
    [][closed =>
          /\ closed'
          /\ pushLog' # pushLog =>
                /\ ~Last(pushLog').ok
                /\ UNCHANGED <<queue, resolvers, nextRes>>]_vars

\* a push was refused while an item was still queued
C6_Witness ==
    /\ closed
    /\ queue # <<>>
    /\ \E i \in 1..Len(pushLog) : ~pushLog[i].ok

\* C7: a push on an open queue either hands its item to exactly one suspended
\* next() or appends it to the queue, never both; so the queue is non-empty
\* only if no next() is waiting.
C7_PushEitherOr ==
    /\ [](queue # <<>> => resolvers = <<>>)
    /\ [][(pushLog' # pushLog /\ Last(pushLog').ok) =>
            LET item == Last(pushLog').item
                got == {k \in NextCalls : nextRes'[k] # nextRes[k]}
            IN \/ /\ queue' = Append(queue, item)
                  /\ got = {}
                  /\ resolvers' = resolvers
               \/ /\ queue' = queue
                  /\ Cardinality(got) = 1
                  /\ \A k \in got : /\ nextRes[k].st = "suspended"
                                    /\ nextRes'[k].st = "value"
                                    /\ nextRes'[k].value = item
                  /\ Len(resolvers') = Len(resolvers) - 1]_vars

\* one push was handed to a waiting next(), a later one was appended
C7_Witness ==
    /\ queue # <<>>
    /\ \E k \in NextCalls : nextRes[k].st = "value" /\ nextRes[k].queued = 0

\* a next() call that found the queue open and empty, and so was suspended
WasSuspended(k) ==
    /\ nextRes[k].st # "none"
    /\ nextRes[k].queued = 0
    /\ ~nextRes[k].wasClosed

\* C8: pending next() calls are resolved by later pushes in the order the
\* calls were made, each push resolving one call: no item reaches two calls and
\* no pushed item is lost.
C8_DistinctInOrder ==
    /\ \A i, j \in NextCalls :
          (i < j /\ WasSuspended(i) /\ WasSuspended(j) /\ nextRes[j].st = "value") =>
              /\ nextRes[i].st = "value"
              /\ PushIndex(nextRes[i].value) < PushIndex(nextRes[j].value)
    /\ \A i, j \in NextCalls :
          (i # j /\ nextRes[i].st = "value" /\ nextRes[j].st = "value") =>
              nextRes[i].value # nextRes[j].value
    /\ Range(Pushed) = Range(queue) \cup Range(Held)
    /\ Len(Pushed) = Len(queue) + Len(Held)

\* two next() calls were pending together and both were resolved by pushes
C8_Witness ==
    /\ WasSuspended(1) /\ nextRes[1].st = "value"
    /\ WasSuspended(2) /\ nextRes[2].waiting = 1 /\ nextRes[2].st = "value"

\* ====================================================================
\* Properties of the Session
\* ====================================================================
\* turn c has broadcast its terminal event and its processing is over
Completed(c) ==
    /\ turn[c].st \in {"ended", "failed"}
    /\ turn[c].last \in {"result", "error"}

\* call b was made right after call a, while the turn of a, which was started
\* at once on an idle Session, was still being processed
BackToBack(a, b) ==
    /\ b = a + 1
    /\ call[a].pc # "none" /\ call[a].idleAtIssue
    /\ call[b].pc # "none" /\ ~call[b].idleAtIssue

C2_AtMostOneTurn ==
    Cardinality(InFlight) <= 1

\* C9: when the agent stream of a turn throws, the Session broadcasts one error
\* event to its subscribers, the call is not failed by it (no addUserMessage
\* call ever throws), and the busy state is cleared: the promise is fulfilled
\* for the calls that wait on it, and an idle Session has no queryPromise, so
\* that the next call is processed at once. (Checked under SpecSubs.)
C9_FailedTurnRecovers ==
    /\ [](\A c \in Calls : call[c].pc # "threw")
    /\ [](Quiescent => queryPromise = 0)
    /\ [][\A c \in Calls :
            (turn[c].st = "open" /\ turn'[c].st = "failed") =>
                /\ lastSend' = [type |-> "error", turn |-> c,
                                to |-> subscribers \ broken, info |-> <<>>,
                                msgs |-> <<[wire |-> "error", block |-> 0]>>]
                /\ subscribers' = subscribers \ broken
                /\ turn'[c].last = "error"
                /\ queryPromise' = 0
                /\ \A i \in 1..Len(microtasks') : microtasks'[i].ok]_vars

\* a turn failed, its error reached a subscriber, its call returned, and a call
\* made afterwards is being processed
C9_Witness ==
    \E a, b \in Calls :
        /\ a < b
        /\ turn[a].st = "failed"
        /\ call[a].pc = "returned"
        /\ lastSend.type = "error" /\ lastSend.turn = a /\ lastSend.to # {}
        /\ call[b].idleAtIssue
        /\ turn[b].st = "open"

\* C10: endConversation() only clears the conversation handle; in particular it
\* leaves the busy state (queryPromise) of the Session as it is.
C10_EndKeepsBusy ==
    [][endConversation => UNCHANGED queryPromise]_vars

\* C11: the Session keeps the handle of the latest system/init event (only such
\* an event and endConversation() change it), every turn is started as a
\* continuation of the handle kept, and the first turn started after
\* endConversation() is started without a handle.
C11_ResumeUntilEnd ==
    /\ [][sdkSessionId' # sdkSessionId =>
             \/ sdkSessionId' = "" /\ ended'
             \/ lastSend'.type = "system" /\ turn'[lastSend'.turn].last = "system"]_vars
    /\ [][\A c \in Calls :
             (turn[c].st = "none" /\ turn'[c].st = "open") =>
                 /\ turn'[c].resume = sdkSessionId
                 /\ ended => turn'[c].resume = ""]_vars

\* C12: the wire events of an agent message reach every subscriber whose send
\* succeeds in the order the agent generated them (the content blocks in array
\* order, none left out), within the step that reads the message and so before
\* the next one is read; and the result is the last event of its turn: nothing
\* of the turn follows it, up to and after the return of addUserMessage.
C12_InOrderStreamed ==
    /\ [][\A c \in Calls, m \in PlainMessages \cup BlockMessages :
             ( /\ turn[c].st = "open"
               /\ m.text \/ \E b \in Range(m.blocks) : b # "other"
               /\ \E h \in Handles \cup {""} : streamMessage(c, m, h) ) =>
                 LET sent == lastSend'.msgs
                 IN /\ lastSend'.turn = c
                    /\ lastSend'.to = subscribers \ broken
                    /\ sent # <<>>
                    /\ m.text => sent = <<[wire |-> WireType(m.type), block |-> 0]>>
                    /\ ~m.text =>
                          /\ \A i \in 1..Len(sent) :
                                /\ sent[i].block \in 1..Len(m.blocks)
                                /\ sent[i].wire = BlockWire(m.blocks[sent[i].block])
                          /\ \A i, j \in 1..Len(sent) : i < j => sent[i].block <= sent[j].block
                          /\ \A b \in 1..Len(m.blocks) :
                                m.blocks[b] # "other" => \E i \in 1..Len(sent) : sent[i].block = b]_vars
    /\ [](\A c \in Calls :
             turn[c].st \in {"resulted", "ended"} => turn[c].last = "result")

\* a turn returned after its result, and the next turn has just streamed a
\* message of two blocks to two subscribers
C12_Witness ==
    \E a, c \in Calls :
        /\ call[a].pc = "returned" /\ turn[a].st = "ended"
        /\ turn[c].st = "open"
        /\ lastSend.turn = c /\ lastSend.to = Conns
        /\ Len(lastSend.msgs) = 2
        /\ lastSend.msgs[1].block = 1 /\ lastSend.msgs[2].block = 2

\* C13: a step that subscribes a connection adds it to the subscriber set (and
\* changes the set in no other way) and sends one session_info message, with
\* the Session's id, its turn count and its busy flag, to that connection only.
C13_SubscribeSnapshot ==
    [][\A w \in Conns :
          (w \notin subscribers /\ w \in subscribers') =>
              /\ subscribers' = subscribers \cup {w}
              /\ connData'[w] = SessionId
              /\ lastSend'.type = "session_info"
              /\ lastSend'.msgs = <<[wire |-> "session_info", block |-> 0]>>
              /\ lastSend'.to = {w}
              /\ lastSend'.info = <<SessionId, messageCount, queryPromise # 0>>]_vars

\* a connection subscribed while another was subscribed and a turn was running,
\* and was told so
C13_Witness ==
    /\ subscribers = Conns
    /\ lastSend.type = "session_info"
    /\ lastSend.info = <<SessionId, 1, TRUE>>

\* the steps in which the Session broadcasts an event of a turn
IsSessionBroadcast ==
    \/ \E c \in Calls, m \in PlainMessages : streamMessage(c, m, "h1")
    \/ \E c \in Calls : streamThrow(c)

\* C15: a subscriber whose send fails during a broadcast is dropped by it: after
\* the broadcast the subscribers are those whose send succeeded, and a client
\* that was dropped is sent no later event of the Session.
C15_FailedSubscriberDropped ==
    /\ [][IsSessionBroadcast =>
             /\ subscribers' = subscribers \ broken
             /\ lastSend'.to = subscribers \ broken]_vars
    /\ [][\A w \in broken \ subscribers : w \notin lastSend'.to \/ UNCHANGED lastSend]_vars

\* the send to w1 failed: w1 is no subscriber any more and an event went to w2 alone
C15_Witness ==
    /\ broken = {"w1"}
    /\ subscribers = {"w2"}
    /\ connData["w1"] = SessionId
    /\ lastSend.type \in {"assistant_message", "result", "error"}
    /\ lastSend.to = {"w2"}

\* C33: once cleanup() has been called, every addUserMessage call that is in
\* flight (running its turn or waiting for the turn before it) eventually
\* returns, and the Session does not stay busy.
C33_AbortResolves ==
    \A c \in Calls :
        (closed /\ call[c].pc \in {"running", "waiting"}) ~>
            (call[c].pc \in {"returned", "threw"} /\ queryPromise # c)

\* the addUserMessage calls whose turn has started
TurnsStarted == {c \in Calls : turn[c].st # "none"}

\* C37: the turn counter of the Session never decreases; it grows by exactly
\* one in the step in which the turn of an addUserMessage call starts (at once
\* for a call that found the Session idle, after the wait for a call that found
\* it busy) and in no other step; the messageCount of a session_info message is
\* the number of turns started so far.
C37_TurnCounter ==
    [][/\ messageCount' >= messageCount
       /\ messageCount' = messageCount + Cardinality(TurnsStarted' \ TurnsStarted)
       /\ \A c \in Calls :
             (call[c].pc # "running" /\ call'[c].pc = "running") =>
                 /\ messageCount' = messageCount + 1
                 /\ c \in TurnsStarted' \ TurnsStarted
       /\ (\E w \in subscribers' : w \notin subscribers) =>
             lastSend'.info[2] = Cardinality(TurnsStarted)]_vars

\* two turns were started, the second by a call that had to wait for the
\* first, and a connection that subscribed afterwards was told two
C37_Witness ==
    /\ messageCount = 2
    /\ Cardinality(TurnsStarted) = 2
    /\ \E c \in Calls : call[c].waitedOn # 0 /\ c \in TurnsStarted
    /\ lastSend.type = "session_info"
    /\ lastSend.info[2] = 2

\* ====================================================================
\* Properties of the WebSocketHandler
\* ====================================================================
\* the steps in which the hub or one of its Sessions broadcasts
IsBroadcastStep ==
    \/ \E type \in BroadcastTypes : hubBroadcast(type)
    \/ \E id \in SessionIds, last \in BOOLEAN : sessionEvent(id, last)
    \/ \E w \in Conns, result \in ActionResults : executeActionReturns(w, result)

\* C14: a send that fails never keeps a broadcast from the other recipients:
\* an event a Session broadcasts reaches every subscriber whose send succeeds,
\* and a hub-wide broadcast (inbox_update, ui_state_update, component_instance,
\* listener_log) reaches every connected client whose send succeeds.
C14_FailedSendIsolated ==
    [][IsBroadcastStep =>
          \A i \in 1..Len(hubSent') :
              /\ hubSent'[i].type = "session_event" =>
                    \A r \in sessions[hubSent'[i].arg].subs :
                        r \notin broken => r \in hubSent'[i].to
              /\ hubSent'[i].type \in BroadcastTypes \cup {"component_instance"} =>
                    \A r \in clients : r \notin broken => r \in hubSent'[i].to]_vars

\* a client's send fails, and the broadcast still reached the other client
C14_Witness ==
    /\ clients = Conns
    /\ Cardinality(broken) = 1
    /\ \E i \in 1..Len(hubSent) :
          /\ hubSent[i].type \in BroadcastTypes \cup {"component_instance", "session_event"}
          /\ hubSent[i].to = Conns \ broken

\* C16: a registered Session is never found without subscriber for longer than
\* the grace period, whichever way it lost its last subscriber: by then it has
\* been removed from the registry.
C16_OrphanRemoved ==
    \A id \in SessionIds : idle[id] <= Grace

\* C17: a cleanup timer that was set while the Session had no subscriber does
\* not remove the Session if a client subscribed to its id after the timer was
\* set and before it fires.
C17_ResubscribeCancels ==
    [][(cleanupTimeout /\ Head(timers).resub) =>
          sessions'[Head(timers).id] = sessions[Head(timers).id]]_vars

\* C18: when an executed action returns a result that declares component
\* instances, each of them is registered for the invoking session and a
\* component_instance message for it is broadcast to every connected client
\* (whose send succeeds), whatever session the clients are subscribed to.
C18_InstancesToAll ==
    [][\A w \in Conns, result \in ActionResults :
          executeActionReturns(w, result) =>
              \A k \in 1..Len(result.components) :
                  /\ instances'[result.components[k]] = pendingAct[w]
                  /\ \E i \in 1..Len(hubSent') :
                        hubSent'[i] = [type |-> "component_instance",
                                       to |-> clients \ broken,
                                       arg |-> result.components[k]]]_vars

\* C34: the continuation of execute_action registers and broadcasts component
\* instances only when the result of the action has success = true.
C34_InstancesOnlyOnSuccess ==
    [][\A w \in Conns, result \in ActionResults :
          (~result.success /\ executeActionReturns(w, result)) =>
              /\ instances' = instances
              /\ \A i \in 1..Len(hubSent') : hubSent'[i].type # "component_instance"]_vars

\* C35: what is stored for a registered instance id never changes.
C35_InstanceImmutable ==
    [][\A i \in InstanceIds : instances[i] # "" => instances'[i] = instances[i]]_vars

\* C32: a connection that was closed is in the subscriber set of no Session.
C32_ClosedIsUnsubscribed ==
    \A w \in Conns \ clients : w \notin Subscribed

\* C38: no step removes from the registry a Session that has a subscriber.
C38_SubscribedNeverRemoved ==
    [][\A id \in SessionIds :
          (sessions[id].on /\ sessions[id].subs # {}) => sessions'[id].on]_vars

\* C39: a connection in the subscriber set of a Session has the id of that
\* Session as its recorded session id (so it is a subscriber of one Session
\* at most).
C39_OneSessionPerConnection ==
    \A w \in Conns, id \in SessionIds :
        w \in sessions[id].subs => connData[w] = id

\* ====================================================================
\* Properties of the UIStateManager
\* ====================================================================
\* C19: round trip: while the value v that a setState call persisted for id is
\* the persisted value (no later write or delete of id), getState(id) resolves
\* with v, whether or not a template is registered for id.
C19_RoundTrip ==
    [][\A id \in StateIds :
          (getState(id) /\ persisted[id] # NoRow) => lastGet'.value = persisted[id]]_vars

C21_GetStateReadOnly ==
    [][\A id \in StateIds :
          getState(id) => UNCHANGED <<persisted, stateLog, notified>>]_vars

\* getState returned the fallback of a template after a write of another id,
\* and the id still has no row
C21_Witness ==
    /\ lastGet = [id |-> "task_board", value |-> "init"]
    /\ persisted["task_board"] = NoRow
    /\ persisted["notes"] # NoRow
    /\ Len(stateLog) = 1

\* C22: the notification round of one setState call invokes every registered
\* callback exactly once with the id and the value of the call, whichever
\* callbacks throw, and the call returns normally.
C22_FanOut ==
    [][\A k \in Writes, th \in Throwers :
          (writes[k].pc = "persisted" /\ setStateReturns(k, FALSE, th)) =>
              /\ writes'[k].pc = "returned"
              /\ Len(notified') = Len(notified) + 1
              /\ Last(notified').id = writes[k].id
              /\ Last(notified').value = writes[k].value
              /\ \A cb \in Callbacks :
                     Cardinality({i \in 1..Len(Last(notified').to) : Last(notified').to[i] = cb})
                         = IF Has(updateCallbacks, cb) THEN 1 ELSE 0]_vars

\* a round in which the first of two registered callbacks threw and the second
\* was still invoked
C22_Witness ==
    \E i \in 1..Len(notified) :
        /\ Len(notified[i].to) = 2
        /\ notified[i].threw = {notified[i].to[1]}
        /\ writes[notified[i].write].pc = "returned"

\* the records of s made for write k
Of(s, k) == {i \in 1..Len(s) : s[i].write = k}

C24_InitializeOnce ==
    [][\A id \in StateIds :
          initializeStateIfNeeded(id, FALSE) =>
              /\ (persisted[id] = NoRow /\ templates[id] # NoTemplate) =>
                     persisted'[id] = templates[id]
              /\ (persisted[id] # NoRow \/ templates[id] = NoTemplate) =>
                     /\ persisted' = persisted
                     /\ lastInit' = [id |-> id, result |-> FALSE]]_vars

\* the writes of id that persisted
Persisted(id) == {k \in Writes : writes[k].id = id /\ writes[k].pc \in {"persisted", "returned"}}

\* C30: when at least two setState calls of an id have returned and none is
\* under way, the row of the id holds the value of the call issued last.
C30_LastWriteWins ==
    \A id \in StateIds :
        (/\ \A k \in Persisted(id) : writes[k].pc = "returned"
         /\ Cardinality(Persisted(id)) >= 2) =>
            persisted[id] = writes[CHOOSE k \in Persisted(id) : \A l \in Persisted(id) : l <= k].value

\* two overlapping writes of one id with different values, of which the one
\* issued last returned first
C30_Witness ==
    \E i, j \in 1..Len(notified) :
        /\ i < j
        /\ notified[i].write > notified[j].write
        /\ notified[i].id = notified[j].id
        /\ notified[i].value # notified[j].value
        /\ Persisted(notified[i].id) = {notified[i].write, notified[j].write}

C40_NotifiedInPersistOrder ==
    \A i, j \in 1..Len(notified) :
        (i < j /\ notified[i].id = notified[j].id) => notified[i].write < notified[j].write

\* ====================================================================
\* Properties of the template loading
\* ====================================================================
\* the files of the directory that are plugin sources and not private
PluginSources == {"notes.ts", "task_board.ts"}
\* the file loads and has an id and an initial state
WellFormed(f) ==
    /\ files[f].exists /\ ~files[f].throws
    /\ files[f].id # "" /\ files[f].initialState # "undefined"
\* the templates held
Entries(t) == {id \in StateIds : t[id] # NoTemplate}

\* C27: when loadAllTemplates returns over a directory whose n plugin sources
\* are all valid (and were not changed meanwhile), the map has exactly n
\* entries, one per id, each the definition of its own file as it is now,
\* whatever the map held before (an earlier load, an older version of a file).
C27_ReloadIdempotent ==
    [][(/\ loadAllReturns
        /\ ~loading.dirty
        /\ \A f \in PluginSources : files[f].exists => WellFormed(f)) =>
           /\ Cardinality(Entries(templates')) =
                  Cardinality({f \in PluginSources : files[f].exists})
           /\ \A f \in PluginSources :
                  files[f].exists => templates'[files[f].id] = files[f].initialState]_vars

\* both templates are loaded, one of them from the edited version of its file
C27_Witness ==
    /\ loading.pc = "idle"
    /\ files["task_board.ts"] = Template("task_board", "init2")
    /\ files["notes.ts"] = Template("notes", "init")
    /\ templates = [id \in StateIds |-> IF id = "task_board" THEN "init2" ELSE "init"]

\* C28: when loadAllTemplates returns (no file changed meanwhile) the map holds
\* exactly the well-formed plugin sources: a file that fails to import or
\* lacks its id or initial state is skipped without stopping the load, and a
\* private file or a file of another extension is never loaded.
C28_OnlyValidLoaded ==
    [][(loadAllReturns /\ ~loading.dirty) =>
           \A id \in StateIds :
               IF \E f \in PluginSources : WellFormed(f) /\ files[f].id = id
               THEN \E f \in PluginSources :
                        /\ WellFormed(f) /\ files[f].id = id
                        /\ templates'[id] = files[f].initialState
               ELSE templates'[id] = NoTemplate]_vars

\* a load over a directory with a file whose import throws, a private file and
\* a backup file ended with the one valid template, listed after the broken file
C28_Witness ==
    /\ loading.pc = "idle"
    /\ files["notes.ts"] = Throwing
    /\ files["_draft.ts"].exists
    /\ files["notes.bak"].exists
    /\ files["task_board.ts"] = Template("task_board", "init2")
    /\ templates = [id \in StateIds |-> IF id = "task_board" THEN "init2" ELSE NoTemplate]

\* C29: a getState during a reload finds the template that was loaded when the
\* reload started and whose file is unchanged and valid.
C29_ReloadKeepsTemplates ==
    [][(/\ getState("task_board")
        /\ loading.pc # "idle"
        /\ ~loading.dirty
        /\ persisted["task_board"] = NoRow
        /\ loading.before["task_board"] # NoTemplate
        /\ WellFormed("task_board.ts")
        /\ files["task_board.ts"].initialState = loading.before["task_board"]) =>
           lastGet'.value = loading.before["task_board"]]_vars

\* ====================================================================
\* Properties of the ActionsManager
\* ====================================================================
\* the log entries of run k
Logged(k) == {i \in 1..Len(actLog) : actLog[i].run = k}
\* the log entries of run k that are marked as failed
LoggedFailed(k) ==
    {i \in Logged(k) : ~actLog[i].result.success /\ actLog[i].error = runs[k].error}

C36_NotFoundIsAResult ==
    [][/\ \A k \in Runs :
             /\ (runs[k].pc = "none" /\ runs'[k].pc # "none" /\ runs'[k].lookup # "found") =>
                    /\ runs'[k].pc = "returned"
                    /\ ~runs'[k].result.success
                    /\ runs'[k].outcome = ""
                    /\ runs'[k].error = ""
             /\ (runs[k].pc # "none" /\ runs[k].lookup # "found") => runs'[k] = runs[k]
       /\ \A w \in Conns, id \in SessionIds :
             (~sessions[id].on /\ (onMessageSubscribe(w, id) \/ onMessageExecuteAction(w, id))) =>
                 /\ hubSent' = <<Sent("error", {w}, "Session not found")>>
                 /\ sessions' = sessions
                 /\ pendingAct' = pendingAct
                 /\ connData' = connData
       /\ \A id \in SessionIds :
             (~sessions[id].on /\ sessions'[id].on) =>
                 \E w \in Conns, n \in BOOLEAN : onMessageChat(w, id, n)]_vars

\* one executeAction call found no instance and another no template, both have
\* returned; a client that named an unknown session was told so while another
\* session, created by a chat message, is registered
C36_Witness ==
    /\ \E k, l \in Runs :
          /\ runs[k].lookup = "noInstance" /\ runs[k].pc = "returned"
          /\ runs[l].lookup = "noTemplate" /\ runs[l].pc = "returned"
    /\ \E w \in Conns : hubSent = <<Sent("error", {w}, "Session not found")>>
    /\ \E id \in SessionIds : sessions[id].on
    /\ \E id \in SessionIds : ~sessions[id].on

====
